---- MODULE Spec2Model ----
(***************************************************************************)
(* A model of the conversion engine of tconvert (src/src/converter.ts):    *)
(* the router convertFile, its three validations, the image, media and     *)
(* document pipelines with their timers, and cleanupFile.                  *)
(*                                                                         *)
(* JavaScript strings are sequences of one-character strings, so that      *)
(* startsWith, includes, toLowerCase, replace and template literals are    *)
(* computed the way the code computes them.                                *)
(***************************************************************************)
EXTENDS Integers, Sequences, FiniteSets, TLC

(***************************************************************************)
(* String primitives                                                       *)
(***************************************************************************)
UpperLetters ==
  <<"A","B","C","D","E","F","G","H","I","J","K","L","M",
    "N","O","P","Q","R","S","T","U","V","W","X","Y","Z">>

LowerLetters ==
  <<"a","b","c","d","e","f","g","h","i","j","k","l","m",
    "n","o","p","q","r","s","t","u","v","w","x","y","z">>

LowerChar(c) ==
  IF \E i \in 1..26 : UpperLetters[i] = c
  THEN LowerLetters[CHOOSE i \in 1..26 : UpperLetters[i] = c]
  ELSE c

\* String.prototype.toLowerCase
ToLowerCase(s) == [i \in 1..Len(s) |-> LowerChar(s[i])]

\* String.prototype.startsWith
StartsWith(s, p) == Len(p) <= Len(s) /\ SubSeq(s, 1, Len(p)) = p

\* String.prototype.includes
Includes(s, sub) ==
  \E i \in 0..(Len(s) - Len(sub)) : SubSeq(s, i + 1, i + Len(sub)) = sub

\* s.replace('.', ''): a string pattern replaces the first occurrence only
RemoveFirstDot(s) ==
  IF \E i \in 1..Len(s) : s[i] = "."
  THEN LET k == CHOOSE i \in 1..Len(s) : s[i] = "." /\ \A j \in 1..(i - 1) : s[j] # "."
       IN  SubSeq(s, 1, k - 1) \o SubSeq(s, k + 1, Len(s))
  ELSE s

DigitChars == <<"0","1","2","3","4","5","6","7","8","9">>

RECURSIVE ToDec(_)
\* String(n) / `${n}` of a non-negative integer
ToDec(n) ==
  IF n < 10 THEN <<DigitChars[n + 1]>>
  ELSE ToDec(n \div 10) \o <<DigitChars[(n % 10) + 1]>>

(***************************************************************************)
(* String literals of the source                                           *)
(***************************************************************************)
\* 'image/'
PfxImage == <<"i","m","a","g","e","/">>
\* 'video/'
PfxVideo == <<"v","i","d","e","o","/">>
\* 'audio/'
PfxAudio == <<"a","u","d","i","o","/">>
\* 'document'
SubDocument == <<"d","o","c","u","m","e","n","t">>
\* 'word'
SubWord == <<"w","o","r","d">>
\* 'opendocument'
SubOpendocument == <<"o","p","e","n","d","o","c","u","m","e","n","t">>
\* 'text/plain'
MimeTextPlain == <<"t","e","x","t","/","p","l","a","i","n">>
\* 'image/png'
MimeImagePng == <<"i","m","a","g","e","/","p","n","g">>
\* 'image/jpeg'
MimeImageJpeg == <<"i","m","a","g","e","/","j","p","e","g">>
\* 'video/mp4'
MimeVideoMp4 == <<"v","i","d","e","o","/","m","p","4">>
\* 'audio/mpeg'
MimeAudioMpeg == <<"a","u","d","i","o","/","m","p","e","g">>
\* 'application/msword'
MimeMsword == <<"a","p","p","l","i","c","a","t","i","o","n","/","m","s","w","o","r","d">>
\* 'application/vnd.oasis.opendocument.text'
MimeOdt ==
  <<"a","p","p","l","i","c","a","t","i","o","n","/","v","n","d",".","o","a",
    "s","i","s",".","o","p","e","n","d","o","c","u","m","e","n","t",".","t",
    "e","x","t">>
\* 'application/pdf'
MimePdf == <<"a","p","p","l","i","c","a","t","i","o","n","/","p","d","f">>
\* 'application/x-sh'
MimeXSh == <<"a","p","p","l","i","c","a","t","i","o","n","/","x","-","s","h">>
\* 'jpg'
FmtJpg == <<"j","p","g">>
\* 'jpeg'
FmtJpeg == <<"j","p","e","g">>
\* 'png'
FmtPng == <<"p","n","g">>
\* 'webp'
FmtWebp == <<"w","e","b","p">>
\* 'gif'
FmtGif == <<"g","i","f">>
\* 'pdf'
FmtPdf == <<"p","d","f">>
\* 'mp3'
FmtMp3 == <<"m","p","3">>
\* 'mp4'
FmtMp4 == <<"m","p","4">>
\* '.exe'
ExtExe == <<".","e","x","e">>
\* '.png'
ExtPng == <<".","p","n","g">>
\* '.jpg'
ExtJpg == <<".","j","p","g">>
\* '.mp4'
ExtMp4 == <<".","m","p","4">>
\* '.docx'
ExtDocx == <<".","d","o","c","x">>
\* '.EXE'
ExtExeUpper == <<".","E","X","E">>
\* 'File size '
MsgFileSizePrefix == <<"F","i","l","e"," ","s","i","z","e"," ">>
\* 'MB exceeds 20MB limit'
MsgFileSizeSuffix ==
  <<"M","B"," ","e","x","c","e","e","d","s"," ","2","0","M","B"," ","l","i",
    "m","i","t">>
\* 'Failed to read file'
MsgFailedToRead ==
  <<"F","a","i","l","e","d"," ","t","o"," ","r","e","a","d"," ","f","i","l",
    "e">>
\* 'ENOENT: no such file or directory, stat'
MsgEnoentStat ==
  <<"E","N","O","E","N","T",":"," ","n","o"," ","s","u","c","h"," ","f","i",
    "l","e"," ","o","r"," ","d","i","r","e","c","t","o","r","y",","," ","s",
    "t","a","t">>
\* 'EACCES: permission denied, stat'
MsgEaccesStat ==
  <<"E","A","C","C","E","S",":"," ","p","e","r","m","i","s","s","i","o","n",
    " ","d","e","n","i","e","d",","," ","s","t","a","t">>
\* 'File type not allowed'
MsgNotAllowed ==
  <<"F","i","l","e"," ","t","y","p","e"," ","n","o","t"," ","a","l","l","o",
    "w","e","d">>
\* 'Unsupported format combination'
MsgUnsupportedCombination ==
  <<"U","n","s","u","p","p","o","r","t","e","d"," ","f","o","r","m","a","t",
    " ","c","o","m","b","i","n","a","t","i","o","n">>
\* 'Unsupported format'
MsgUnsupportedFormat == <<"U","n","s","u","p","p","o","r","t","e","d"," ","f","o","r","m","a","t">>
\* 'Unsupported format: '
MsgUnsupportedFormatColon ==
  <<"U","n","s","u","p","p","o","r","t","e","d"," ","f","o","r","m","a","t",
    ":"," ">>
\* 'ENOENT'
SubEnoent == <<"E","N","O","E","N","T">>
\* 'File not found'
MsgFileNotFound == <<"F","i","l","e"," ","n","o","t"," ","f","o","u","n","d">>
\* 'Conversion failed'
MsgConversionFailed == <<"C","o","n","v","e","r","s","i","o","n"," ","f","a","i","l","e","d">>
\* 'Conversion timed out'
MsgConversionTimedOut ==
  <<"C","o","n","v","e","r","s","i","o","n"," ","t","i","m","e","d"," ","o",
    "u","t">>
\* 'Conversion timed out after '
MsgTimedOutAfter ==
  <<"C","o","n","v","e","r","s","i","o","n"," ","t","i","m","e","d"," ","o",
    "u","t"," ","a","f","t","e","r"," ">>
\* 'Failed to create PDF from image'
MsgFailedPdf ==
  <<"F","a","i","l","e","d"," ","t","o"," ","c","r","e","a","t","e"," ","P",
    "D","F"," ","f","r","o","m"," ","i","m","a","g","e">>
\* 'Media conversion failed'
MsgMediaFailed ==
  <<"M","e","d","i","a"," ","c","o","n","v","e","r","s","i","o","n"," ","f",
    "a","i","l","e","d">>
\* 'exceeds 20MB'
SubExceeds20MB == <<"e","x","c","e","e","d","s"," ","2","0","M","B">>

\* 'Input file contains unsupported image format'
MsgSharpUnsupported ==
  <<"I","n","p","u","t"," ","f","i","l","e"," ","c","o","n","t","a","i","n",
    "s"," ","u","n","s","u","p","p","o","r","t","e","d"," ","i","m","a","g",
    "e"," ","f","o","r","m","a","t">>
\* 'Cannot use same file for input and output'
MsgSameFile ==
  <<"C","a","n","n","o","t"," ","u","s","e"," ","s","a","m","e"," ","f","i",
    "l","e"," ","f","o","r"," ","i","n","p","u","t"," ","a","n","d"," ","o",
    "u","t","p","u","t">>
\* 'ffmpeg exited with code 1'
MsgFfmpegExit ==
  <<"f","f","m","p","e","g"," ","e","x","i","t","e","d"," ","w","i","t","h",
    " ","c","o","d","e"," ","1">>
\* 'ffmpeg was killed with signal SIGKILL'
MsgFfmpegKilled ==
  <<"f","f","m","p","e","g"," ","w","a","s"," ","k","i","l","l","e","d"," ",
    "w","i","t","h"," ","s","i","g","n","a","l"," ","S","I","G","K","I","L",
    "L">>
\* 'ENOENT: no such file or directory, open'
MsgEnoentOpen ==
  <<"E","N","O","E","N","T",":"," ","n","o"," ","s","u","c","h"," ","f","i",
    "l","e"," ","o","r"," ","d","i","r","e","c","t","o","r","y",","," ","o",
    "p","e","n">>
\* 'ENOSPC: no space left on device, write'
MsgEnospcWrite ==
  <<"E","N","O","S","P","C",":"," ","n","o"," ","s","p","a","c","e"," ","l",
    "e","f","t"," ","o","n"," ","d","e","v","i","c","e",","," ","w","r","i",
    "t","e">>
\* 'Could not find soffice binary'
MsgSoffice ==
  <<"C","o","u","l","d"," ","n","o","t"," ","f","i","n","d"," ","s","o","f",
    "f","i","c","e"," ","b","i","n","a","r","y">>
\* 'application/vnd.openxmlformats-officedocument.wordprocessingml.document'
MimeDocx ==
  <<"a","p","p","l","i","c","a","t","i","o","n","/","v","n","d",".","o","p",
    "e","n","x","m","l","f","o","r","m","a","t","s","-","o","f","f","i","c",
    "e","d","o","c","u","m","e","n","t",".","w","o","r","d","p","r","o","c",
    "e","s","s","i","n","g","m","l",".","d","o","c","u","m","e","n","t">>
\* 'xyz'
FmtXyz == <<"x","y","z">>
\* 'PNG'
FmtPngUpper == <<"P","N","G">>
\* '.pdf'
FmtDotPdf == <<".","p","d","f">>
\* 'MP3'
FmtMp3Upper == <<"M","P","3">>
\* '%PDF-1.4'
PdfMagic == <<"%","P","D","F","-","1",".","4">>
\* '%PDF-1.4\n'
PdfHeader == <<"%","P","D","F","-","1",".","4","\n">>
\* '1 0 obj\n<< /Type /Catalog /Pages 2 0 R >>\nendobj\n'
PdfObj1Content ==
  <<"1"," ","0"," ","o","b","j","\n","<","<"," ","/","T","y","p","e"," ","/",
    "C","a","t","a","l","o","g"," ","/","P","a","g","e","s"," ","2"," ","0",
    " ","R"," ",">",">","\n","e","n","d","o","b","j","\n">>
\* '2 0 obj\n<< /Type /Pages /Kids [3 0 R] /Count 1 >>\nendobj\n'
PdfObj2Content ==
  <<"2"," ","0"," ","o","b","j","\n","<","<"," ","/","T","y","p","e"," ","/",
    "P","a","g","e","s"," ","/","K","i","d","s"," ","[","3"," ","0"," ","R",
    "]"," ","/","C","o","u","n","t"," ","1"," ",">",">","\n","e","n","d","o",
    "b","j","\n">>
\* '3 0 obj\n<< /Type /Page /Parent 2 0 R /MediaBox [0 0 '
PdfObj3A ==
  <<"3"," ","0"," ","o","b","j","\n","<","<"," ","/","T","y","p","e"," ","/",
    "P","a","g","e"," ","/","P","a","r","e","n","t"," ","2"," ","0"," ","R",
    " ","/","M","e","d","i","a","B","o","x"," ","[","0"," ","0"," ">>
\* '] /Resources 4 0 R /Contents 6 0 R >>\nendobj\n'
PdfObj3B ==
  <<"]"," ","/","R","e","s","o","u","r","c","e","s"," ","4"," ","0"," ","R",
    " ","/","C","o","n","t","e","n","t","s"," ","6"," ","0"," ","R"," ",">",
    ">","\n","e","n","d","o","b","j","\n">>
\* '4 0 obj\n<< /XObject << /Im1 5 0 R >> >>\nendobj\n'
PdfObj4Content ==
  <<"4"," ","0"," ","o","b","j","\n","<","<"," ","/","X","O","b","j","e","c",
    "t"," ","<","<"," ","/","I","m","1"," ","5"," ","0"," ","R"," ",">",">",
    " ",">",">","\n","e","n","d","o","b","j","\n">>
\* '5 0 obj\n<< /Type /XObject /Subtype /Image /Width '
PdfObj5A ==
  <<"5"," ","0"," ","o","b","j","\n","<","<"," ","/","T","y","p","e"," ","/",
    "X","O","b","j","e","c","t"," ","/","S","u","b","t","y","p","e"," ","/",
    "I","m","a","g","e"," ","/","W","i","d","t","h"," ">>
\* ' /Height '
PdfObj5B == <<" ","/","H","e","i","g","h","t"," ">>
\* ' /ColorSpace /DeviceRGB /BitsPerComponent 8 /Filter /DCTDecode /Length '
PdfObj5C ==
  <<" ","/","C","o","l","o","r","S","p","a","c","e"," ","/","D","e","v","i",
    "c","e","R","G","B"," ","/","B","i","t","s","P","e","r","C","o","m","p",
    "o","n","e","n","t"," ","8"," ","/","F","i","l","t","e","r"," ","/","D",
    "C","T","D","e","c","o","d","e"," ","/","L","e","n","g","t","h"," ">>
\* ' >>\nstream\n'
PdfObj5D == <<" ",">",">","\n","s","t","r","e","a","m","\n">>
\* '\nendstream\nendobj\n'
PdfObj5End == <<"\n","e","n","d","s","t","r","e","a","m","\n","e","n","d","o","b","j","\n">>
\* '6 0 obj\n<< /Length 50 >>\nstream\nq '
PdfObj6A ==
  <<"6"," ","0"," ","o","b","j","\n","<","<"," ","/","L","e","n","g","t","h",
    " ","5","0"," ",">",">","\n","s","t","r","e","a","m","\n","q"," ">>
\* ' 0 0 '
PdfObj6B == <<" ","0"," ","0"," ">>
\* ' 0 0 cm /Im1 Do Q\nendstream\nendobj\n'
PdfObj6C ==
  <<" ","0"," ","0"," ","c","m"," ","/","I","m","1"," ","D","o"," ","Q","\n",
    "e","n","d","s","t","r","e","a","m","\n","e","n","d","o","b","j","\n">>
\* 'xref\n0 7\n0000000000 65535 f \n'
PdfXrefHead ==
  <<"x","r","e","f","\n","0"," ","7","\n","0","0","0","0","0","0","0","0","0",
    "0"," ","6","5","5","3","5"," ","f"," ","\n">>
\* ' 00000 n \n'
PdfXrefEntryTail == <<" ","0","0","0","0","0"," ","n"," ","\n">>
\* 'trailer\n<< /Size 7 /Root 1 0 R >>\nstartxref\n'
PdfTrailerA ==
  <<"t","r","a","i","l","e","r","\n","<","<"," ","/","S","i","z","e"," ","7",
    " ","/","R","o","o","t"," ","1"," ","0"," ","R"," ",">",">","\n","s","t",
    "a","r","t","x","r","e","f","\n">>
\* '\n%%EOF\n'
PdfTrailerB == <<"\n","%","%","E","O","F","\n">>
\* 'File size 25.00MB exceeds 20MB limit'
MsgFileSize25 ==
  <<"F","i","l","e"," ","s","i","z","e"," ","2","5",".","0","0","M","B"," ",
    "e","x","c","e","e","d","s"," ","2","0","M","B"," ","l","i","m","i","t">>
\* 'File size 20.00MB exceeds 20MB limit'
MsgFileSize20 ==
  <<"F","i","l","e"," ","s","i","z","e"," ","2","0",".","0","0","M","B"," ",
    "e","x","c","e","e","d","s"," ","2","0","M","B"," ","l","i","m","i","t">>
(***************************************************************************)
(* Constants of the source                                                 *)
(***************************************************************************)
MAX_FILE_SIZE == 20 * 1024 * 1024

IMAGE_TIMEOUT == 30000

VIDEO_TIMEOUT == 120000

MAX_IMAGE_SIZE == 1080

(***************************************************************************)
(* Paths.  A path of the scratch directory is a record: stem is the file   *)
(* name without its extension, as the list of the pieces it was built      *)
(* from, and ext is path.extname (the leading dot included).               *)
(***************************************************************************)
MkPath(stem, ext) == [stem |-> stem, ext |-> ext]

\* path.extname(p)
ExtName(p) == p.ext

\* path.basename(p, path.extname(p))
BaseName(p) == p.stem

\* path.join(dirName, `${baseName}_converted.${targetFormat}`)
OutputPathOf(inputPath, targetFormat) ==
  MkPath(Append(BaseName(inputPath), "_converted"), <<".">> \o targetFormat)

\* inputPath.replace(path.extname(inputPath), '.png'): the first occurrence
\* of the extension is the extension itself; an empty pattern matches at
\* position 0, which prepends the replacement.
PngPathOf(inputPath) ==
  IF ExtName(inputPath) = <<>>
  THEN MkPath(<<".png">> \o inputPath.stem, <<>>)
  ELSE MkPath(inputPath.stem, ExtPng)

\* imagePath.replace('.png', '_temp.jpg')
JpegPathOf(imagePath) ==
  IF ExtName(imagePath) = ExtPng
  THEN MkPath(Append(imagePath.stem, "_temp"), ExtJpg)
  ELSE imagePath

(***************************************************************************)
(* Errors: an Error object is its code and its message.                    *)
(***************************************************************************)
MkError(code, message) == [code |-> code, message |-> message]

NoError == MkError("", <<>>)

\* (size / 1024 / 1024).toFixed(2): the exact quotient rounded to two
\* decimals, ties upwards.
ToFixed2MB(size) ==
  LET whole == size \div 1048576
      rest  == size % 1048576
      cents == whole * 100 + ((rest * 200 + 1048576) \div 2097152)
  IN  ToDec(cents \div 100) \o <<".">> \o
      <<DigitChars[((cents % 100) \div 10) + 1], DigitChars[(cents % 10) + 1]>>

FileTooLargeError(size) ==
  MkError("FILE_TOO_LARGE",
          MsgFileSizePrefix \o ToFixed2MB(size) \o MsgFileSizeSuffix)

\* a timeout rejection without the code 'TIMEOUT'
TimeoutErrorNoCode(ms) ==
  MkError("", MsgTimedOutAfter \o ToDec(ms \div 1000) \o <<"s">>)

\* createTimeout's rejection: `Conversion timed out after ${ms / 1000}s`
TimeoutError(ms) ==
  MkError("TIMEOUT", MsgTimedOutAfter \o ToDec(ms \div 1000) \o <<"s">>)

(***************************************************************************)
(* The scratch file system: a function from the paths that exist to what   *)
(* is stored there.  statOk = FALSE is a file whose stat fails (EACCES);   *)
(* locked = TRUE is a file whose unlink fails (EPERM).                     *)
(***************************************************************************)
MkFile(kind, size, statOk, locked) ==
  [kind |-> kind, size |-> size, statOk |-> statOk, locked |-> locked]

NoFiles == [p \in {} |-> MkFile("", 0, TRUE, FALSE)]

Exists(fsys, p) == p \in DOMAIN fsys

PutFile(fsys, p, f) == [q \in (DOMAIN fsys) \cup {p} |-> IF q = p THEN f ELSE fsys[q]]

DropFile(fsys, p) == [q \in (DOMAIN fsys) \ {p} |-> fsys[q]]

\* fs.stat
Stat(fsys, p) ==
  IF ~Exists(fsys, p)
  THEN [ok |-> FALSE, size |-> 0, err |-> MkError("ENOENT", MsgEnoentStat)]
  ELSE IF ~fsys[p].statOk
  THEN [ok |-> FALSE, size |-> 0, err |-> MkError("EACCES", MsgEaccesStat)]
  ELSE [ok |-> TRUE, size |-> fsys[p].size, err |-> NoError]

\* fs.unlink
Unlink(fsys, p) ==
  IF ~Exists(fsys, p) THEN [ok |-> FALSE, code |-> "ENOENT", files |-> fsys]
  ELSE IF fsys[p].locked THEN [ok |-> FALSE, code |-> "EPERM", files |-> fsys]
  ELSE [ok |-> TRUE, code |-> "", files |-> DropFile(fsys, p)]

(***************************************************************************)
(* cleanupFile: unlink inside try, an empty catch.                         *)
(***************************************************************************)
CleanupFileRethrows(fsys, p) ==
  LET r == Unlink(fsys, p)
  IN  [files |-> r.files, raised |-> ~r.ok, code |-> r.code]

CleanupFile(fsys, p) ==
  LET r == Unlink(fsys, p)
  IN  [files |-> r.files, raised |-> FALSE, code |-> r.code]

(***************************************************************************)
(* Safety validator                                                        *)
(***************************************************************************)
ValidateFileSizeInclusive(fsys, filePath) ==
  LET st == Stat(fsys, filePath)
  IN  IF st.ok /\ st.size >= MAX_FILE_SIZE
      THEN [threw |-> TRUE, err |-> FileTooLargeError(st.size)]
      ELSE IF ~st.ok
      THEN [threw |-> TRUE, err |-> MkError("", MsgFailedToRead)]
      ELSE [threw |-> FALSE, err |-> NoError]

ValidateFileSize(fsys, filePath) ==
  LET st    == Stat(fsys, filePath)
      \* the try block: stat may throw, the size test may throw
      inner == IF ~st.ok THEN [threw |-> TRUE, err |-> st.err]
               ELSE IF st.size > MAX_FILE_SIZE
               THEN [threw |-> TRUE, err |-> FileTooLargeError(st.size)]
               ELSE [threw |-> FALSE, err |-> NoError]
  IN  \* the catch block
      IF inner.threw /\ inner.err.code # "FILE_TOO_LARGE"
      THEN [threw |-> TRUE, err |-> MkError("", MsgFailedToRead)]
      ELSE inner

\* ['.exe', '.sh', '.bat', '.cmd', '.com', '.scr', '.vbs', '.js', '.jar', '.app',
\*  '.deb', '.rpm']
DangerousExtensions ==
  {<<".","e","x","e">>,
   <<".","s","h">>,
   <<".","b","a","t">>,
   <<".","c","m","d">>,
   <<".","c","o","m">>,
   <<".","s","c","r">>,
   <<".","v","b","s">>,
   <<".","j","s">>,
   <<".","j","a","r">>,
   <<".","a","p","p">>,
   <<".","d","e","b">>,
   <<".","r","p","m">>}

\* ['application/x-executable', 'application/x-sh', 'application/x-bat']
DangerousMimes ==
  {<<"a","p","p","l","i","c","a","t","i","o","n","/","x","-","e","x","e","c","u","t","a","b","l","e">>,
   <<"a","p","p","l","i","c","a","t","i","o","n","/","x","-","s","h">>,
   <<"a","p","p","l","i","c","a","t","i","o","n","/","x","-","b","a","t">>}

ValidateMimeSafetyCaseSensitive(mime, filePath) ==
  /\ ExtName(filePath) \notin DangerousExtensions
  /\ ~\E d \in DangerousMimes : Includes(mime, d)

ValidateMimeSafety(mime, filePath) ==
  LET ext == ToLowerCase(ExtName(filePath))
  IN  IF ext \in DangerousExtensions THEN FALSE
      ELSE IF \E d \in DangerousMimes : Includes(mime, d) THEN FALSE
      ELSE TRUE

ImageFormats == {FmtJpg, FmtJpeg, FmtPng, FmtWebp, FmtGif, FmtPdf}

AudioFormats == {FmtMp3}

VideoFormats == {FmtMp4, FmtGif}

DocumentFormats == {FmtPdf}

IsValidConversionAnyTarget(inputMime, targetFormat) ==
  \/ StartsWith(inputMime, PfxImage)
  \/ StartsWith(inputMime, PfxVideo)
  \/ StartsWith(inputMime, PfxAudio)
  \/ Includes(inputMime, SubDocument)
  \/ Includes(inputMime, SubWord)
  \/ Includes(inputMime, SubOpendocument)

IsValidConversion(inputMime, targetFormat) ==
  IF StartsWith(inputMime, PfxImage) THEN targetFormat \in ImageFormats
  ELSE IF StartsWith(inputMime, PfxVideo)
  THEN targetFormat \in (AudioFormats \cup VideoFormats)
  ELSE IF StartsWith(inputMime, PfxAudio) THEN targetFormat \in AudioFormats
  ELSE IF \/ Includes(inputMime, SubDocument)
          \/ Includes(inputMime, SubWord)
          \/ Includes(inputMime, SubOpendocument)
  THEN targetFormat \in DocumentFormats
  ELSE FALSE

(***************************************************************************)
(* Conversion router: normalisation, dispatch and error mapping            *)
(***************************************************************************)
\* targetFormat.toLowerCase().replace('.', '')
NormalizeFormat(targetFormat) == RemoveFirstDot(ToLowerCase(targetFormat))

\* the branch of convertFile's if / else-if chain that a MIME type selects
RouteOf(inputMime) ==
  IF StartsWith(inputMime, PfxImage) THEN "image"
  ELSE IF StartsWith(inputMime, PfxVideo) \/ StartsWith(inputMime, PfxAudio)
  THEN "media"
  ELSE IF \/ Includes(inputMime, SubDocument)
          \/ Includes(inputMime, SubWord)
          \/ Includes(inputMime, SubOpendocument)
          \/ inputMime = MimeTextPlain
  THEN "document"
  ELSE "none"

\* a catch block that rethrows the error it caught
MapErrorRaw(err) == err.message

\* the catch block of convertFile: the message of the Error it throws
MapError(err) ==
  IF err.code = "FILE_TOO_LARGE" THEN err.message
  ELSE IF err.code = "TIMEOUT" THEN MsgConversionTimedOut
  ELSE IF Includes(err.message, MsgUnsupportedFormat) THEN MsgUnsupportedFormat
  ELSE IF Includes(err.message, SubEnoent) THEN MsgFileNotFound
  ELSE MsgConversionFailed

(***************************************************************************)
(* convertImageToPdf: page geometry and the hand-built PDF container       *)
(***************************************************************************)
A4_WIDTH == 595

A4_HEIGHT == 842

(***************************************************************************)
(* JavaScript numbers are IEEE 754 doubles.  A positive double is modelled *)
(* as its 53-bit significand (most significant bit first, which is 1) and  *)
(* the exponent of its last bit: the value is significand * 2^exp.  Each   *)
(* operation computes the exact result and rounds it to nearest, ties to   *)
(* even.                                                                   *)
(***************************************************************************)
\* the w binary digits of n, for 0 <= n < 2^w
Bits(n, w) == [i \in 1..w |-> (n \div (2 ^ (w - i))) % 2]

RECURSIVE IntOf(_)
IntOf(bits) ==
  IF bits = <<>> THEN 0
  ELSE 2 * IntOf(SubSeq(bits, 1, Len(bits) - 1)) + bits[Len(bits)]

\* the digits from the first 1 on
Normalized(bits) ==
  LET p == CHOOSE i \in 1..Len(bits) :
             bits[i] = 1 /\ \A j \in 1..(i - 1) : bits[j] = 0
  IN  SubSeq(bits, p, Len(bits))

Incr(bits) ==
  IF \A i \in 1..Len(bits) : bits[i] = 1
  THEN <<1>> \o [i \in 1..Len(bits) |-> 0]
  ELSE LET k == CHOOSE i \in 1..Len(bits) :
                  bits[i] = 0 /\ \A j \in (i + 1)..Len(bits) : bits[j] = 1
       IN  [i \in 1..Len(bits) |->
              IF i < k THEN bits[i] ELSE IF i = k THEN 1 ELSE 0]

\* round the exact value all * 2^exp (plus something below its last bit when
\* sticky) to 53 bits
RoundToDouble(all, exp, sticky) ==
  LET keep == SubSeq(all, 1, 53)
      tail == SubSeq(all, 54, Len(all))
      up   == /\ tail # <<>>
              /\ tail[1] = 1
              /\ \/ \E i \in 2..Len(tail) : tail[i] = 1
                 \/ sticky
                 \/ keep[53] = 1
      r    == IF up THEN Incr(keep) ELSE keep
  IN  IF Len(r) > 53
      THEN [bits |-> SubSeq(r, 1, 53), exp |-> exp + Len(tail) + 1]
      ELSE [bits |-> r, exp |-> exp + Len(tail)]

\* a / d for positive integers below 2^12: long division in base 2^18
FloatDiv(a, d) ==
  LET L  == 2 ^ 18
      r0 == a % d
      r1 == (r0 * L) % d
      r2 == (r1 * L) % d
      r3 == (r2 * L) % d
      r4 == (r3 * L) % d
      all == Bits(a \div d, 12) \o Bits((r0 * L) \div d, 18)
               \o Bits((r1 * L) \div d, 18) \o Bits((r2 * L) \div d, 18)
               \o Bits((r3 * L) \div d, 18)
  IN  RoundToDouble(Normalized(all), -72, r4 # 0)

\* x * f for a positive integer x below 2^12 and a double f
FloatMulInt(x, f) ==
  LET L  == 2 ^ 18
      p0 == IntOf(SubSeq(f.bits, 36, 53)) * x
      p1 == IntOf(SubSeq(f.bits, 18, 35)) * x + (p0 \div L)
      p2 == IntOf(SubSeq(f.bits, 1, 17)) * x + (p1 \div L)
  IN  RoundToDouble(Normalized(Bits(p2, 30) \o Bits(p1 % L, 18)
                                 \o Bits(p0 % L, 18)),
                    f.exp, FALSE)

\* Math.min of two positive doubles
MathMin(f, g) ==
  IF \/ f.exp < g.exp
     \/ /\ f.exp = g.exp
        /\ \E i \in 1..53 : /\ f.bits[i] < g.bits[i]
                            /\ \A j \in 1..(i - 1) : f.bits[j] = g.bits[j]
  THEN f ELSE g

\* Math.floor of a positive double below 2^31
MathFloor(f) ==
  IF 53 + f.exp <= 0 THEN 0 ELSE IntOf(SubSeq(f.bits, 1, 53 + f.exp))

\* scale = Math.min(a4Width / imgWidth, a4Height / imgHeight);
\* Math.floor(imgWidth * scale), Math.floor(imgHeight * scale)
PageSize(imgWidth, imgHeight) ==
  IF imgWidth > A4_WIDTH \/ imgHeight > A4_HEIGHT
  THEN LET scale == MathMin(FloatDiv(A4_WIDTH, imgWidth),
                            FloatDiv(A4_HEIGHT, imgHeight))
       IN  [w |-> MathFloor(FloatMulInt(imgWidth, scale)),
            h |-> MathFloor(FloatMulInt(imgHeight, scale))]
  ELSE [w |-> imgWidth, h |-> imgHeight]

\* String(n).padStart(10, '0')
PadStart10(s) ==
  IF Len(s) >= 10 THEN s ELSE [i \in 1..(10 - Len(s)) |-> "0"] \o s

\* the offsets the code writes: obj1 .. obj6 and xrefStart
PdfOffsets(imageLength, pageWidth, pageHeight, imgWidth, imgHeight) ==
  LET obj1 == 9
      obj2 == obj1 + 54
      obj3 == obj2 + 60
      obj4 == obj3 + 100
      obj5 == obj4 + 45
      obj6Start == obj5 + 200
      obj6 == obj6Start + imageLength + 18
      xrefStart == obj6 + 80
  IN  [obj |-> <<obj1, obj2, obj3, obj4, obj5, obj6>>, xrefStart |-> xrefStart]

\* The assembled file, as the list of the buffers given to Buffer.concat.
\* The JPEG bytes are represented by their number: each buffer is
\* [text, extra] and occupies Len(text) + extra bytes.
PdfParts(imgWidth, imgHeight, imageLength) ==
  LET page == PageSize(imgWidth, imgHeight)
      off  == PdfOffsets(imageLength, page.w, page.h, imgWidth, imgHeight)
      text(s) == [text |-> s, extra |-> 0]
      entry(n) == PadStart10(ToDec(n)) \o PdfXrefEntryTail
  IN  << text(PdfHeader),
         text(PdfObj1Content),
         text(PdfObj2Content),
         text(PdfObj3A \o ToDec(page.w) \o <<" ">> \o ToDec(page.h) \o PdfObj3B),
         text(PdfObj4Content),
         text(PdfObj5A \o ToDec(imgWidth) \o PdfObj5B \o ToDec(imgHeight) \o
              PdfObj5C \o ToDec(imageLength) \o PdfObj5D),
         [text |-> <<>>, extra |-> imageLength],
         text(PdfObj5End),
         text(PdfObj6A \o ToDec(page.w) \o PdfObj6B \o ToDec(page.h) \o PdfObj6C),
         text(PdfXrefHead \o entry(off.obj[1]) \o entry(off.obj[2]) \o
              entry(off.obj[3]) \o entry(off.obj[4]) \o entry(off.obj[5]) \o
              entry(off.obj[6])),
         text(PdfTrailerA \o ToDec(off.xrefStart) \o PdfTrailerB) >>

\* what convertImageToPdf hands to fs.writeFile
BuildPdf(imgWidth, imgHeight, imageLength) ==
  LET page == PageSize(imgWidth, imgHeight)
  IN  [ parts  |-> PdfParts(imgWidth, imgHeight, imageLength),
        page   |-> page,
        imgWidth |-> imgWidth, imgHeight |-> imgHeight,
        imageLength |-> imageLength ]

RECURSIVE ParseDec(_)
\* the number a string of decimal digits denotes
ParseDec(s) ==
  IF s = <<>> THEN 0
  ELSE 10 * ParseDec(SubSeq(s, 1, Len(s) - 1)) +
       ((CHOOSE d \in 1..10 : DigitChars[d] = s[Len(s)]) - 1)

RECURSIVE PartsLength(_)
\* Buffer.concat: the byte length of a list of buffers
PartsLength(parts) ==
  IF parts = <<>> THEN 0
  ELSE Len(Head(parts).text) + Head(parts).extra + PartsLength(Tail(parts))

\* the byte position at which buffer k of the assembled file starts
PartStart(parts, k) == PartsLength(SubSeq(parts, 1, k - 1))

NoPdf ==
  [ parts |-> <<>>, page |-> [w |-> 0, h |-> 0], imgWidth |-> 0,
    imgHeight |-> 0, imageLength |-> 0 ]

(***************************************************************************)
(* Bounded inputs                                                          *)
(***************************************************************************)
InputStem == <<"input">>

InputExts == {ExtPng, ExtJpg, ExtExe, ExtExeUpper, ExtMp4, ExtDocx}

InputPaths == {MkPath(InputStem, e) : e \in InputExts}

InputSizes ==
  {1024, MAX_FILE_SIZE - 1, MAX_FILE_SIZE, MAX_FILE_SIZE + 1, 25 * 1024 * 1024}

InputFiles ==
  {MkFile("input", s, TRUE, FALSE) : s \in InputSizes} \cup
  {MkFile("input", 1024, FALSE, FALSE), MkFile("input", 1024, TRUE, TRUE)}

InputMimes ==
  {MimeImagePng, MimeImageJpeg, MimeVideoMp4, MimeAudioMpeg, MimeMsword,
   MimeDocx, MimeOdt, MimeTextPlain, MimePdf, MimeXSh}

RequestedFormats ==
  {FmtJpg, FmtJpeg, FmtPng, FmtWebp, FmtGif, FmtPdf, FmtMp3, FmtMp4,
   FmtXyz, FmtPngUpper, FmtDotPdf, FmtMp3Upper, <<"p", ".", "n", "g">>}

\* pixel sizes sharp's metadata() may report for the input image
ImageDims ==
  {<<1, 1>>, <<800, 600>>, <<1080, 720>>, <<1920, 1080>>, <<3000, 4000>>}

\* byte lengths of the temporary JPEG
JpegLengths == {125, 20000}

(***************************************************************************)
(* State                                                                   *)
(***************************************************************************)
VARIABLES
  files,          \* the scratch file system
  call,           \* the arguments of the convertFile call and its targetFormat
  pc,             \* convertFile: "idle", "validating", "converting", "settled"
  result,         \* what convertFile returned or threw
  img,            \* convertImage / convertImageToPdf
  imgTimer,       \* the timer of createTimeout(IMAGE_TIMEOUT)
  media,          \* convertMedia: the ffmpeg process and the promise
  mediaTimer,     \* the timer of convertMedia
  doc,            \* convertDocument
  docTimer,       \* the timer of createTimeout(VIDEO_TIMEOUT)
  pendingUnlinks, \* cleanupFile calls that were not awaited and are in flight
  touched,        \* the paths convertFile handed to a write or a remove
  cleanupLog,     \* one entry for every cleanupFile call that has returned
  pdfDoc,         \* the last buffer convertImageToPdf handed to fs.writeFile
  caller,         \* the caller of convertFile: "idle", "awaiting", "done"
  bot             \* the bot: pending conversions, convert handlers, the clock

vars ==
  <<files, call, pc, result, img, imgTimer, media, mediaTimer, doc, docTimer,
    pendingUnlinks, touched, cleanupLog, pdfDoc, caller, bot>>

NoPath == MkPath(<<>>, <<>>)

NoCall ==
  [inputPath |-> NoPath, inputMime |-> <<>>, requestedFormat |-> <<>>,
   targetFormat |-> <<>>]

Pending == [status |-> "pending", path |-> NoPath, message |-> <<>>]

Resolved(path) == [status |-> "resolved", path |-> path, message |-> <<>>]

\* throw new Error(message)
Rejected(message) == [status |-> "rejected", path |-> NoPath, message |-> message]

ImgIdle ==
  [pc |-> "idle", err |-> NoError, width |-> 0, height |-> 0,
   outWidth |-> 0, outHeight |-> 0]

MediaIdle == [proc |-> "none", promise |-> "none", err |-> NoError]

DocIdle == [pc |-> "idle", backend |-> "none", err |-> NoError]

OutputPath == OutputPathOf(call.inputPath, call.targetFormat)

PngPath == PngPathOf(call.inputPath)

JpegPath == JpegPathOf(PngPath)

(***************************************************************************)
(* The bot: pending conversions per user, the handlers of the convert      *)
(* callback that are in flight, and the clock Date.now() reads.            *)
(***************************************************************************)
MaxClock == 2

BotUsers == {1, 2}

BotHandlers == {1, 2}

\* what a message handler stores for an uploaded file, and the extension of
\* the file_path getFile reports for it
UploadedFiles ==
  { [fileId |-> "A", originalMime |-> MimeImageJpeg, ext |-> ExtJpg],
    [fileId |-> "B", originalMime |-> MimeImagePng, ext |-> ExtPng],
    [fileId |-> "C", originalMime |-> MimeImagePng, ext |-> <<>>] }

\* pendingConversions.get(userId) === undefined
NoPending == [fileId |-> "", originalMime |-> <<>>, ext |-> <<>>]

HandlerFree ==
  [stage |-> "free", user |-> 0, pending |-> NoPending, target |-> <<>>,
   inputPath |-> NoPath]

BotIdle ==
  [pending  |-> [u \in BotUsers |-> NoPending],
   handlers |-> [h \in BotHandlers |-> HandlerFree],
   now      |-> 0]

\* path.join(TEMP_DIR, `input_${userId}_${timestamp}${extension}`) with
\* extension = path.extname(file.file_path || '') || '.tmp'
InputPathOf(userId, timestamp, extname) ==
  MkPath(<<"input", "_">> \o ToDec(userId) \o <<"_">> \o ToDec(timestamp),
         IF extname = <<>> THEN <<".", "t", "m", "p">> ELSE extname)

Init ==
  /\ files \in {NoFiles} \cup
       {PutFile(NoFiles, p, f) : p \in InputPaths, f \in InputFiles}
  /\ call = NoCall
  /\ pc = "idle"
  /\ result = Pending
  /\ img = ImgIdle
  /\ imgTimer = "unset"
  /\ media = MediaIdle
  /\ mediaTimer = "unset"
  /\ doc = DocIdle
  /\ docTimer = "unset"
  /\ pendingUnlinks = {}
  /\ touched = {}
  /\ cleanupLog = {}
  /\ pdfDoc = NoPdf
  /\ caller = "idle"
  /\ bot = BotIdle

(***************************************************************************)
(* Helpers of the actions                                                  *)
(***************************************************************************)
Write(p) == [op |-> "write", path |-> p]

Remove(p) == [op |-> "remove", path |-> p]

LogEntry(fsys, p, r) ==
  [path |-> p, existed |-> Exists(fsys, p), code |-> r.code,
   raised |-> r.raised, gone |-> ~Exists(r.files, p)]

RECURSIVE CleanupAll(_, _)
\* await cleanupFile(p1); await cleanupFile(p2); ...
CleanupAll(fsys, paths) ==
  IF paths = <<>> THEN [files |-> fsys, log |-> {}]
  ELSE LET r    == CleanupFile(fsys, Head(paths))
           rest == CleanupAll(r.files, Tail(paths))
       IN  [files |-> rest.files,
            log   |-> {LogEntry(fsys, Head(paths), r)} \cup rest.log]

Removes(paths) == {Remove(paths[i]) : i \in 1..Len(paths)}

\* a router that takes every settlement, also one that arrives after the
\* call has ended
SettleOverwrites(outcome) == pc' = "settled" /\ result' = outcome

\* the promise convertFile awaits has settled: the router returns the path,
\* or its catch block maps the error; a promise that lost a race is ignored
Settle(outcome) ==
  IF pc = "converting"
  THEN pc' = "settled" /\ result' = outcome
  ELSE UNCHANGED <<pc, result>>

(***************************************************************************)
(* convertFile: call, validation, dispatch                                 *)
(***************************************************************************)
\* a router that consults the allow-list before the size and safety checks
ValidationOutcomeAllowListFirst(fsys, c) ==
  LET v == ValidateFileSize(fsys, c.inputPath)
  IN  IF ~IsValidConversion(c.inputMime, c.targetFormat)
      THEN [threw |-> TRUE, err |-> MkError("", MsgUnsupportedCombination)]
      ELSE IF v.threw THEN v
      ELSE IF ~ValidateMimeSafety(c.inputMime, c.inputPath)
      THEN [threw |-> TRUE, err |-> MkError("", MsgNotAllowed)]
      ELSE IF RouteOf(c.inputMime) = "none"
      THEN [threw |-> TRUE, err |-> MkError("", MsgUnsupportedFormat)]
      ELSE [threw |-> FALSE, err |-> NoError]

\* the three validations and the router's final else branch
ValidationOutcome(fsys, c) ==
  LET v == ValidateFileSize(fsys, c.inputPath)
  IN  IF v.threw THEN v
      ELSE IF ~ValidateMimeSafety(c.inputMime, c.inputPath)
      THEN [threw |-> TRUE, err |-> MkError("", MsgNotAllowed)]
      ELSE IF ~IsValidConversion(c.inputMime, c.targetFormat)
      THEN [threw |-> TRUE, err |-> MkError("", MsgUnsupportedCombination)]
      ELSE IF RouteOf(c.inputMime) = "none"
      THEN [threw |-> TRUE, err |-> MkError("", MsgUnsupportedFormat)]
      ELSE [threw |-> FALSE, err |-> NoError]

ConvertFile(inputPath, inputMime, targetFormat) ==
  /\ pc = "idle"
  /\ caller = "idle"
  /\ files = NoFiles \/ inputPath \in DOMAIN files
  /\ call' = [inputPath |-> inputPath, inputMime |-> inputMime,
              requestedFormat |-> targetFormat,
              targetFormat |-> NormalizeFormat(targetFormat)]
  /\ pc' = "validating"
  /\ caller' = "awaiting"
  /\ UNCHANGED <<bot, files, result, img, imgTimer, media, mediaTimer, doc,
                 docTimer, pendingUnlinks, touched, cleanupLog, pdfDoc>>

RejectRequest ==
  /\ pc = "validating"
  /\ ValidationOutcome(files, call).threw
  /\ pc' = "settled"
  /\ result' = Rejected(MapError(ValidationOutcome(files, call).err))
  /\ UNCHANGED <<bot, files, call, img, imgTimer, media, mediaTimer, doc, docTimer,
                 pendingUnlinks, touched, cleanupLog, pdfDoc, caller>>

DispatchImage ==
  /\ pc = "validating"
  /\ ~ValidationOutcome(files, call).threw
  /\ RouteOf(call.inputMime) = "image"
  /\ pc' = "converting"
  /\ img' = [ImgIdle EXCEPT !.pc = "metadata"]
  /\ imgTimer' = "armed"
  /\ UNCHANGED <<bot, files, call, result, media, mediaTimer, doc, docTimer,
                 pendingUnlinks, touched, cleanupLog, pdfDoc, caller>>

(***************************************************************************)
(* Image pipeline                                                          *)
(***************************************************************************)
Max2(a, b) == IF a >= b THEN a ELSE b

\* the pipeline without the resize step
ResizedDimsUncapped(width, height) == [w |-> width, h |-> height]

\* resize(MAX_IMAGE_SIZE, MAX_IMAGE_SIZE, {fit: 'inside', withoutEnlargement})
\* when the longer side exceeds MAX_IMAGE_SIZE
ResizedDims(width, height) ==
  LET maxDimension == Max2(width, height)
      scaled(x) == Max2(1, (2 * x * MAX_IMAGE_SIZE + maxDimension) \div
                           (2 * maxDimension))
  IN  IF width # 0 /\ height # 0 /\ maxDimension > MAX_IMAGE_SIZE
      THEN [w |-> scaled(width), h |-> scaled(height)]
      ELSE [w |-> width, h |-> height]

\* a switch that lacks the 'gif' case
ImageBranchWithoutGif(targetFormat) ==
  LET f == ToLowerCase(targetFormat)
  IN  IF f \in {FmtJpg, FmtJpeg, FmtPng, FmtWebp} THEN "encode"
      ELSE IF f = FmtPdf THEN "pdf"
      ELSE "default"

\* switch (targetFormat.toLowerCase()) of convertImage
ImageBranch(targetFormat) ==
  LET f == ToLowerCase(targetFormat)
  IN  IF f \in {FmtJpg, FmtJpeg, FmtPng, FmtWebp, FmtGif} THEN "encode"
      ELSE IF f = FmtPdf THEN "pdf"
      ELSE "default"

\* metadata.width || 595, metadata.height || 842
OrDefault(v, d) == IF v = 0 THEN d ELSE v

\* the catch block of convertImage, after the awaited cleanups in `cleanups`:
\* the pipeline's promise rejects with err
ImgFail(fsys, err, cleanups, handed) ==
  LET c == CleanupAll(fsys, cleanups)
  IN  /\ files' = c.files
      /\ cleanupLog' = cleanupLog \cup c.log
      /\ touched' = touched \cup handed \cup Removes(cleanups)
      /\ img' = [img EXCEPT !.pc = "rejected", !.err = err]
      /\ Settle(Rejected(MapError(err)))

\* the catch block of convertImageToPdf, then the one of convertImage
PdfFail(fsys) ==
  ImgFail(fsys, MkError("", MsgFailedPdf), <<PngPath, OutputPath, OutputPath>>, {})

ImgMetadataDone ==
  /\ img.pc = "metadata"
  /\ \E ok \in BOOLEAN, d \in ImageDims :
       /\ ok => Exists(files, call.inputPath)
       /\ IF ~ok
          THEN ImgFail(files, MkError("", MsgSharpUnsupported), <<OutputPath>>, {})
          ELSE IF ImageBranch(call.targetFormat) = "encode"
          THEN /\ img' = [img EXCEPT !.pc = "toFile",
                                     !.width = d[1], !.height = d[2],
                                     !.outWidth = ResizedDims(d[1], d[2]).w,
                                     !.outHeight = ResizedDims(d[1], d[2]).h]
               /\ touched' = touched \cup {Write(OutputPath)}
               /\ UNCHANGED <<files, cleanupLog, pc, result>>
          ELSE IF ImageBranch(call.targetFormat) = "pdf"
          THEN IF PngPath = call.inputPath
               THEN \* sharp's toFile rejects an output that is its input
                    ImgFail(files, MkError("", MsgSameFile), <<OutputPath>>,
                            {Write(PngPath)})
               ELSE /\ img' = [img EXCEPT !.pc = "pngToFile",
                                          !.width = d[1], !.height = d[2],
                                          !.outWidth = ResizedDims(d[1], d[2]).w,
                                          !.outHeight = ResizedDims(d[1], d[2]).h]
                    /\ touched' = touched \cup {Write(PngPath)}
                    /\ UNCHANGED <<files, cleanupLog, pc, result>>
          ELSE ImgFail(files,
                       MkError("", MsgUnsupportedFormatColon \o call.targetFormat),
                       <<OutputPath>>, {})
  /\ UNCHANGED <<bot, call, imgTimer, media, mediaTimer, doc, docTimer,
                 pendingUnlinks, pdfDoc, caller>>

ImgToFileDone ==
  /\ img.pc = "toFile"
  /\ \E ok \in BOOLEAN, partial \in BOOLEAN :
       IF ok
       THEN /\ ~partial
            /\ files' = PutFile(files, OutputPath, MkFile("image", 1, TRUE, FALSE))
            /\ img' = [img EXCEPT !.pc = "resolved"]
            /\ Settle(Resolved(OutputPath))
            /\ UNCHANGED <<touched, cleanupLog>>
       ELSE ImgFail(IF partial
                    THEN PutFile(files, OutputPath, MkFile("partial", 1, TRUE, FALSE))
                    ELSE files,
                    MkError("", MsgEnospcWrite), <<OutputPath>>, {})
  /\ UNCHANGED <<bot, call, imgTimer, media, mediaTimer, doc, docTimer,
                 pendingUnlinks, pdfDoc, caller>>

ImgPngDone ==
  /\ img.pc = "pngToFile"
  /\ \E ok \in BOOLEAN, partial \in BOOLEAN :
       IF ok
       THEN /\ ~partial
            /\ files' = PutFile(files, PngPath, MkFile("png", 1, TRUE, FALSE))
            \* convertImageToPdf starts: sharp(imagePath).jpeg().toFile(jpegPath)
            /\ img' = [img EXCEPT !.pc = "jpegToFile"]
            /\ touched' = touched \cup {Write(JpegPath)}
            /\ UNCHANGED <<cleanupLog, pc, result>>
       ELSE ImgFail(IF partial
                    THEN PutFile(files, PngPath, MkFile("partial", 1, TRUE, FALSE))
                    ELSE files,
                    MkError("", MsgEnospcWrite), <<OutputPath>>, {})
  /\ UNCHANGED <<bot, call, imgTimer, media, mediaTimer, doc, docTimer,
                 pendingUnlinks, pdfDoc, caller>>

ImgJpegDone ==
  /\ img.pc = "jpegToFile"
  /\ \E ok \in BOOLEAN, partial \in BOOLEAN :
       IF ok
       THEN /\ ~partial
            /\ files' = PutFile(files, JpegPath, MkFile("jpeg", 1, TRUE, FALSE))
            /\ img' = [img EXCEPT !.pc = "jpegMeta"]
            /\ UNCHANGED <<touched, cleanupLog, pc, result>>
       ELSE PdfFail(IF partial
                    THEN PutFile(files, JpegPath, MkFile("partial", 1, TRUE, FALSE))
                    ELSE files)
  /\ UNCHANGED <<bot, call, imgTimer, media, mediaTimer, doc, docTimer,
                 pendingUnlinks, pdfDoc, caller>>

ImgJpegMetaDone ==
  /\ img.pc = "jpegMeta"
  /\ \E ok \in BOOLEAN :
       /\ ok => Exists(files, JpegPath)
       /\ IF ok
          THEN /\ img' = [img EXCEPT !.pc = "readJpeg"]
               /\ UNCHANGED <<files, touched, cleanupLog, pc, result>>
          ELSE PdfFail(files)
  /\ UNCHANGED <<bot, call, imgTimer, media, mediaTimer, doc, docTimer,
                 pendingUnlinks, pdfDoc, caller>>

ImgReadJpegDone ==
  /\ img.pc = "readJpeg"
  /\ \E ok \in BOOLEAN, imageLength \in JpegLengths :
       /\ ok => Exists(files, JpegPath)
       /\ IF ok
          THEN /\ pdfDoc' = BuildPdf(OrDefault(img.outWidth, A4_WIDTH),
                                     OrDefault(img.outHeight, A4_HEIGHT),
                                     imageLength)
               /\ img' = [img EXCEPT !.pc = "writePdf"]
               /\ touched' = touched \cup {Write(OutputPath)}
               /\ UNCHANGED <<files, cleanupLog, pc, result>>
          ELSE PdfFail(files) /\ UNCHANGED pdfDoc
  /\ UNCHANGED <<bot, call, imgTimer, media, mediaTimer, doc, docTimer,
                 pendingUnlinks, caller>>

ImgWritePdfDone ==
  /\ img.pc = "writePdf"
  /\ \E ok \in BOOLEAN, partial \in BOOLEAN :
       IF ok
       THEN /\ ~partial
            /\ LET written == PutFile(files, OutputPath,
                                      MkFile("pdf", 1, TRUE, FALSE))
                   c == CleanupAll(written, <<PngPath, JpegPath>>)
               IN  /\ files' = c.files
                   /\ cleanupLog' = cleanupLog \cup c.log
                   /\ touched' = touched \cup Removes(<<PngPath, JpegPath>>)
            /\ img' = [img EXCEPT !.pc = "resolved"]
            /\ Settle(Resolved(OutputPath))
       ELSE PdfFail(IF partial
                    THEN PutFile(files, OutputPath, MkFile("partial", 1, TRUE, FALSE))
                    ELSE files)
  /\ UNCHANGED <<bot, call, imgTimer, media, mediaTimer, doc, docTimer,
                 pendingUnlinks, pdfDoc, caller>>

\* the callback of createTimeout(IMAGE_TIMEOUT); nothing clears this timer
ImgTimerFire ==
  /\ imgTimer = "armed"
  /\ imgTimer' = "fired"
  /\ Settle(Rejected(MapError(TimeoutError(IMAGE_TIMEOUT))))
  /\ UNCHANGED <<bot, files, call, img, media, mediaTimer, doc, docTimer,
                 pendingUnlinks, touched, cleanupLog, pdfDoc, caller>>

(***************************************************************************)
(* Media pipeline                                                          *)
(***************************************************************************)
\* switch (targetFormat.toLowerCase()) of convertMedia
MediaBranch(targetFormat) ==
  LET f == ToLowerCase(targetFormat)
  IN  IF f \in {FmtMp3, FmtGif, FmtMp4} THEN "save" ELSE "default"

\* handlers that leave the timer armed
ClearTimeoutNoop(timer) == timer

\* clearTimeout(timeoutId)
ClearTimeout(timer) == IF timer = "armed" THEN "cleared" ELSE timer

\* the promise executor of convertMedia runs inside the call
DispatchMedia ==
  /\ pc = "validating"
  /\ ~ValidationOutcome(files, call).threw
  /\ RouteOf(call.inputMime) = "media"
  /\ IF MediaBranch(call.targetFormat) = "save"
     THEN /\ mediaTimer' = "armed"
          /\ media' = [MediaIdle EXCEPT !.proc = "running", !.promise = "pending"]
          /\ touched' = touched \cup {Write(OutputPath)}
          /\ pc' = "converting"
          /\ UNCHANGED result
     ELSE LET err == MkError("", MsgUnsupportedFormatColon \o call.targetFormat)
          IN  /\ mediaTimer' = "cleared"
              /\ media' = [MediaIdle EXCEPT !.promise = "rejected", !.err = err]
              /\ pc' = "settled"
              /\ result' = Rejected(MapError(err))
              /\ UNCHANGED touched
  /\ UNCHANGED <<bot, files, call, img, imgTimer, doc, docTimer, pendingUnlinks,
                 cleanupLog, pdfDoc, caller>>

\* the running ffmpeg process creates its output file and writes to it
MediaProcWrite ==
  /\ media.proc = "running"
  /\ ~Exists(files, OutputPath)
  /\ files' = PutFile(files, OutputPath, MkFile("partial", 1, TRUE, FALSE))
  /\ UNCHANGED <<bot, call, pc, result, img, imgTimer, media, mediaTimer, doc,
                 docTimer, pendingUnlinks, touched, cleanupLog, pdfDoc, caller>>

\* the process exits with status 0; its 'end' event is queued
MediaProcEnd ==
  /\ media.proc = "running"
  /\ files' = PutFile(files, OutputPath, MkFile("media", 1, TRUE, FALSE))
  /\ media' = [media EXCEPT !.proc = "ended"]
  /\ UNCHANGED <<bot, call, pc, result, img, imgTimer, mediaTimer, doc, docTimer,
                 pendingUnlinks, touched, cleanupLog, pdfDoc, caller>>

\* the process fails; its 'error' event is queued
MediaProcError ==
  /\ media.proc = "running"
  /\ media' = [media EXCEPT !.proc = "errored"]
  /\ UNCHANGED <<bot, files, call, pc, result, img, imgTimer, mediaTimer, doc,
                 docTimer, pendingUnlinks, touched, cleanupLog, pdfDoc, caller>>

\* .on('end', ...)
MediaOnEnd ==
  /\ media.proc = "ended"
  /\ mediaTimer' = ClearTimeout(mediaTimer)
  /\ IF media.promise = "pending"
     THEN /\ media' = [media EXCEPT !.proc = "closed", !.promise = "resolved"]
          /\ Settle(Resolved(OutputPath))
     ELSE /\ media' = [media EXCEPT !.proc = "closed"]
          /\ UNCHANGED <<pc, result>>
  /\ UNCHANGED <<bot, files, call, img, imgTimer, doc, docTimer, pendingUnlinks,
                 touched, cleanupLog, pdfDoc, caller>>

\* .on('error', ...): also what a killed process emits
MediaOnError ==
  /\ media.proc \in {"errored", "killed"}
  /\ \E message \in IF media.proc = "killed" THEN {MsgFfmpegKilled}
                    ELSE {MsgFfmpegExit, <<>>} :
       LET err == MkError("", IF message = <<>> THEN MsgMediaFailed ELSE message)
       IN  /\ mediaTimer' = ClearTimeout(mediaTimer)
           /\ pendingUnlinks' = pendingUnlinks \cup
                                  {[path |-> OutputPath, by |-> "error"]}
           /\ touched' = touched \cup {Remove(OutputPath)}
           /\ IF media.promise = "pending"
              THEN /\ media' = [media EXCEPT !.proc = "closed",
                                             !.promise = "rejected", !.err = err]
                   /\ Settle(Rejected(MapError(err)))
              ELSE /\ media' = [media EXCEPT !.proc = "closed"]
                   /\ UNCHANGED <<pc, result>>
  /\ UNCHANGED <<bot, files, call, img, imgTimer, doc, docTimer, cleanupLog,
                 pdfDoc, caller>>

\* the setTimeout callback of convertMedia
MediaTimerFire ==
  /\ mediaTimer = "armed"
  /\ mediaTimer' = "fired"
  /\ pendingUnlinks' = pendingUnlinks \cup {[path |-> OutputPath, by |-> "timer"]}
  /\ touched' = touched \cup {Remove(OutputPath)}
  /\ LET err == MkError("", MsgConversionTimedOut)
         \* command.kill('SIGKILL')
         proc == IF media.proc = "running" THEN "killed" ELSE media.proc
     IN  IF media.promise = "pending"
         THEN /\ media' = [media EXCEPT !.proc = proc, !.promise = "rejected",
                                        !.err = err]
              /\ Settle(Rejected(MapError(err)))
         ELSE /\ media' = [media EXCEPT !.proc = proc]
              /\ UNCHANGED <<pc, result>>
  /\ UNCHANGED <<bot, files, call, img, imgTimer, doc, docTimer, cleanupLog,
                 pdfDoc, caller>>

\* a cleanupFile(...).catch(() => {}) that was not awaited completes
UnlinkDone ==
  \E u \in pendingUnlinks :
    LET r == CleanupFile(files, u.path)
    IN  /\ files' = r.files
        /\ cleanupLog' = cleanupLog \cup {LogEntry(files, u.path, r)}
        /\ pendingUnlinks' = pendingUnlinks \ {u}
        /\ UNCHANGED <<bot, call, pc, result, img, imgTimer, media, mediaTimer, doc,
                       docTimer, touched, pdfDoc, caller>>

(***************************************************************************)
(* Document pipeline                                                       *)
(***************************************************************************)
DispatchDocument ==
  /\ pc = "validating"
  /\ ~ValidationOutcome(files, call).threw
  /\ RouteOf(call.inputMime) = "document"
  /\ pc' = "converting"
  /\ doc' = [DocIdle EXCEPT !.pc = "read"]
  /\ UNCHANGED <<bot, files, call, result, img, imgTimer, media, mediaTimer,
                 docTimer, pendingUnlinks, touched, cleanupLog, pdfDoc, caller>>

\* the catch block of convertDocument
DocFail(fsys, err) ==
  LET c == CleanupAll(fsys, <<OutputPath>>)
  IN  /\ files' = c.files
      /\ cleanupLog' = cleanupLog \cup c.log
      /\ touched' = touched \cup {Remove(OutputPath)}
      /\ Settle(Rejected(MapError(err)))

\* fs.readFile(inputPath) completes; libreConvert is called and the timer set
DocReadDone ==
  /\ doc.pc = "read"
  /\ \E ok \in BOOLEAN :
       /\ ok => Exists(files, call.inputPath)
       /\ IF ok
          THEN /\ doc' = [doc EXCEPT !.pc = "race", !.backend = "running"]
               /\ docTimer' = "armed"
               /\ UNCHANGED <<files, cleanupLog, touched, pc, result>>
          ELSE LET err == MkError("ENOENT", MsgEnoentOpen)
               IN  /\ doc' = [doc EXCEPT !.pc = "rejected", !.err = err]
                   /\ DocFail(files, err)
                   /\ UNCHANGED docTimer
  /\ UNCHANGED <<bot, call, img, imgTimer, media, mediaTimer, pendingUnlinks,
                 pdfDoc, caller>>

\* the LibreOffice backend answers; an answer that lost the race is dropped
DocBackendDone ==
  /\ doc.backend = "running"
  /\ \E ok \in BOOLEAN :
       IF doc.pc = "race"
       THEN IF ok
            THEN /\ doc' = [doc EXCEPT !.pc = "write", !.backend = "finished"]
                 /\ touched' = touched \cup {Write(OutputPath)}
                 /\ UNCHANGED <<files, cleanupLog, pc, result>>
            ELSE LET err == MkError("", MsgSoffice)
                 IN  /\ doc' = [doc EXCEPT !.pc = "rejected",
                                           !.backend = "finished", !.err = err]
                     /\ DocFail(files, err)
       ELSE /\ ok
            /\ doc' = [doc EXCEPT !.backend = "finished"]
            /\ UNCHANGED <<files, cleanupLog, touched, pc, result>>
  /\ UNCHANGED <<bot, call, img, imgTimer, media, mediaTimer, docTimer,
                 pendingUnlinks, pdfDoc, caller>>

\* the callback of createTimeout(VIDEO_TIMEOUT); nothing clears this timer
DocTimerFire ==
  /\ docTimer = "armed"
  /\ docTimer' = "fired"
  /\ IF doc.pc = "race"
     THEN LET err == TimeoutError(VIDEO_TIMEOUT)
          IN  /\ doc' = [doc EXCEPT !.pc = "rejected", !.err = err]
              /\ DocFail(files, err)
     ELSE UNCHANGED <<doc, files, cleanupLog, touched, pc, result>>
  /\ UNCHANGED <<bot, call, img, imgTimer, media, mediaTimer, pendingUnlinks,
                 pdfDoc, caller>>

\* fs.writeFile(outputPath, outputBuffer) completes
DocWriteDone ==
  /\ doc.pc = "write"
  /\ \E ok \in BOOLEAN, partial \in BOOLEAN :
       IF ok
       THEN /\ ~partial
            /\ files' = PutFile(files, OutputPath, MkFile("document", 1, TRUE, FALSE))
            /\ doc' = [doc EXCEPT !.pc = "resolved"]
            /\ Settle(Resolved(OutputPath))
            /\ UNCHANGED <<cleanupLog, touched>>
       ELSE LET err == MkError("", MsgEnospcWrite)
            IN  /\ doc' = [doc EXCEPT !.pc = "rejected", !.err = err]
                /\ DocFail(IF partial
                           THEN PutFile(files, OutputPath,
                                        MkFile("partial", 1, TRUE, FALSE))
                           ELSE files, err)
  /\ UNCHANGED <<bot, call, img, imgTimer, media, mediaTimer, docTimer,
                 pendingUnlinks, pdfDoc, caller>>

(***************************************************************************)
(* The caller: after convertFile has returned or thrown, its finally block *)
(* removes the input file and, if a path was returned, the output file.    *)
(***************************************************************************)
\* a finally block that removes the input file only
CallerFinallyKeepsOutput ==
  /\ caller = "awaiting"
  /\ pc = "settled"
  /\ LET c == CleanupAll(files, <<call.inputPath>>)
     IN  /\ files' = c.files
         /\ cleanupLog' = cleanupLog \cup c.log
  /\ caller' = "done"
  /\ UNCHANGED <<bot, call, pc, result, img, imgTimer, media, mediaTimer, doc,
                 docTimer, pendingUnlinks, touched, pdfDoc>>

CallerFinally ==
  /\ caller = "awaiting"
  /\ pc = "settled"
  /\ LET c == CleanupAll(files,
                         IF result.status = "resolved"
                         THEN <<call.inputPath, result.path>>
                         ELSE <<call.inputPath>>)
     IN  /\ files' = c.files
         /\ cleanupLog' = cleanupLog \cup c.log
  /\ caller' = "done"
  /\ UNCHANGED <<bot, call, pc, result, img, imgTimer, media, mediaTimer, doc,
                 docTimer, pendingUnlinks, touched, pdfDoc>>

\* downloadFile rejects, so convertFile is never called: the handler's catch
\* and finally run with inputPath set and outputPath undefined.  A response
\* status other than 200 rejects at once; an error of the request or of the
\* write stream first starts an unlink that is not awaited.
DownloadFailed ==
  /\ caller = "idle"
  /\ pc = "idle"
  /\ \E p \in (IF files = NoFiles THEN InputPaths ELSE DOMAIN files),
        unlinkStarted \in BOOLEAN :
       LET c == CleanupAll(files, <<p>>)
       IN  /\ files' = c.files
           /\ cleanupLog' = cleanupLog \cup c.log
           /\ pendingUnlinks' =
                IF unlinkStarted
                THEN pendingUnlinks \cup {[path |-> p, by |-> "download"]}
                ELSE pendingUnlinks
  /\ caller' = "done"
  /\ UNCHANGED <<bot, call, pc, result, img, imgTimer, media, mediaTimer, doc,
                 docTimer, touched, pdfDoc>>

(***************************************************************************)
(* The bot's handlers.  Updates are handled concurrently (webhook mode),   *)
(* so every await of a handler is a point where another handler may run.   *)
(***************************************************************************)
convVars ==
  <<files, call, pc, result, img, imgTimer, media, mediaTimer, doc, docTimer,
    pendingUnlinks, touched, cleanupLog, pdfDoc, caller>>

\* message:photo / message:document: pendingConversions.set(ctx.from.id, ...)
Upload(userId, file) ==
  /\ bot' = [bot EXCEPT !.pending[userId] = file]
  /\ UNCHANGED convVars

\* getConversionKeyboard: the targets of the buttons offered for a MIME type
GetConversionKeyboard(mimeType) ==
  IF StartsWith(mimeType, PfxImage) THEN {FmtJpg, FmtPng, FmtWebp, FmtPdf}
  ELSE IF StartsWith(mimeType, PfxVideo) THEN {FmtMp3, FmtGif, FmtMp4}
  ELSE IF StartsWith(mimeType, PfxAudio) THEN {FmtMp3}
  ELSE IF \/ Includes(mimeType, SubDocument)
          \/ Includes(mimeType, <<"m", "s", "w", "o", "r", "d">>)
          \/ Includes(mimeType, SubOpendocument)
          \/ mimeType = MimeTextPlain
  THEN {FmtPdf}
  ELSE {FmtJpg, FmtPng, FmtPdf, FmtMp3}

\* callback_query 'convert:<format>': the pending entry is read once; without
\* one the handler answers 'No file found' and returns
PressConvert(h, userId, targetFormat) ==
  /\ bot.handlers[h].stage = "free"
  /\ LET pending == bot.pending[userId]
     IN  bot' = [bot EXCEPT !.handlers[h] =
                   [HandlerFree EXCEPT
                      !.stage = IF pending = NoPending THEN "noFile" ELSE "getFile",
                      !.user = userId, !.pending = pending,
                      !.target = targetFormat]]
  /\ UNCHANGED convVars

\* await ctx.api.getFile(...) has returned: timestamp = Date.now(), inputPath
\* is built, and the download and the conversion start
GetFileDone(h) ==
  /\ bot.handlers[h].stage = "getFile"
  /\ bot' = [bot EXCEPT !.handlers[h].stage = "converting",
                        !.handlers[h].inputPath =
                           InputPathOf(bot.handlers[h].user, bot.now,
                                       bot.handlers[h].pending.ext)]
  /\ UNCHANGED convVars

\* the try block ends: after a successful conversion and reply,
\* pendingConversions.delete(userId); otherwise the catch block; then finally
ConversionDone(h, ok) ==
  /\ bot.handlers[h].stage = "converting"
  /\ bot' = [bot EXCEPT
               !.handlers[h].stage = IF ok THEN "sent" ELSE "failed",
               !.pending[bot.handlers[h].user] =
                  IF ok THEN NoPending ELSE bot.pending[bot.handlers[h].user]]
  /\ UNCHANGED convVars

\* a millisecond passes
Tick ==
  /\ bot.now < MaxClock
  /\ bot' = [bot EXCEPT !.now = bot.now + 1]
  /\ UNCHANGED convVars

InitBot ==
  /\ files = NoFiles
  /\ call = NoCall
  /\ pc = "idle"
  /\ result = Pending
  /\ img = ImgIdle
  /\ imgTimer = "unset"
  /\ media = MediaIdle
  /\ mediaTimer = "unset"
  /\ doc = DocIdle
  /\ docTimer = "unset"
  /\ pendingUnlinks = {}
  /\ touched = {}
  /\ cleanupLog = {}
  /\ pdfDoc = NoPdf
  /\ caller = "idle"
  /\ bot = BotIdle

NextBot ==
  \/ \E u \in BotUsers, f \in UploadedFiles : Upload(u, f)
  \/ \E h \in BotHandlers, u \in BotUsers, t \in {FmtPdf, FmtPng} :
       PressConvert(h, u, t)
  \/ \E h \in BotHandlers : GetFileDone(h)
  \/ \E h \in BotHandlers, ok \in BOOLEAN : ConversionDone(h, ok)
  \/ Tick

SpecBot == InitBot /\ [][NextBot]_vars

(***************************************************************************)
(* convertImageToPdf as a function of the temporary JPEG: its pixel size   *)
(* and its byte length determine the document that is written.             *)
(***************************************************************************)
\* side lengths sharp may report for the temporary JPEG
PageSides == {1, 2, 333, 594, 595, 596, 777, 842, 843, 1080}

BuildPdfFrom(imgWidth, imgHeight, imageLength) ==
  /\ pdfDoc = NoPdf
  /\ pdfDoc' = BuildPdf(imgWidth, imgHeight, imageLength)
  /\ UNCHANGED <<bot, files, call, pc, result, img, imgTimer, media,
                 mediaTimer, doc, docTimer, pendingUnlinks, touched,
                 cleanupLog, caller>>

NextPage ==
  \E w \in PageSides, h \in PageSides, n \in JpegLengths :
    BuildPdfFrom(w, h, n)

SpecPage == InitBot /\ [][NextPage]_vars

(***************************************************************************)
(* Specification                                                           *)
(***************************************************************************)
Next ==
  \/ \E p \in InputPaths, m \in InputMimes, f \in RequestedFormats :
       ConvertFile(p, m, f)
  \/ RejectRequest
  \/ DispatchImage
  \/ ImgMetadataDone
  \/ ImgToFileDone
  \/ ImgPngDone
  \/ ImgJpegDone
  \/ ImgJpegMetaDone
  \/ ImgReadJpegDone
  \/ ImgWritePdfDone
  \/ ImgTimerFire
  \/ DispatchMedia
  \/ MediaProcWrite
  \/ MediaProcEnd
  \/ MediaProcError
  \/ MediaOnEnd
  \/ MediaOnError
  \/ MediaTimerFire
  \/ UnlinkDone
  \/ DispatchDocument
  \/ DocReadDone
  \/ DocBackendDone
  \/ DocTimerFire
  \/ DocWriteDone
  \/ CallerFinally
  \/ DownloadFailed

Spec == Init /\ [][Next]_vars

(***************************************************************************)
(* Observations used by the properties                                     *)
(***************************************************************************)
\* a pipeline function (convertImage, convertMedia, convertDocument) was called
PipelineInvoked == img.pc # "idle" \/ media.promise # "none" \/ doc.pc # "idle"

\* nothing was written, removed, scheduled or spawned for the request
NoSideEffects ==
  /\ touched = {}
  /\ pendingUnlinks = {}
  /\ imgTimer = "unset" /\ mediaTimer = "unset" /\ docTimer = "unset"
  /\ media.proc = "none" /\ doc.backend = "none"
  /\ DOMAIN files \subseteq {call.inputPath}

\* convertFile has returned or thrown and its caller has not yet cleaned up:
\* the scratch directory is as convertFile left it
JustSettled == pc = "settled" /\ caller = "awaiting"

\* the input file is readable and within the size limit
InputAccepted ==
  /\ Stat(files, call.inputPath).ok
  /\ Stat(files, call.inputPath).size <= MAX_FILE_SIZE

\* the deny-list test on the extension, compared case-insensitively
DeniedExtension == ToLowerCase(ExtName(call.inputPath)) \in DangerousExtensions

DeniedMime == \E d \in DangerousMimes : Includes(call.inputMime, d)

\* the allow-list as the specification words it
DocumentLike(mime) ==
  \/ Includes(mime, SubDocument)
  \/ Includes(mime, SubWord)
  \/ Includes(mime, SubOpendocument)
  \/ mime = MimeTextPlain

AllowListed(mime, target) ==
  \/ StartsWith(mime, PfxImage) /\
       target \in {FmtJpg, FmtJpeg, FmtPng, FmtWebp, FmtGif, FmtPdf}
  \/ StartsWith(mime, PfxVideo) /\ target \in {FmtMp3, FmtMp4, FmtGif}
  \/ StartsWith(mime, PfxAudio) /\ target = FmtMp3
  \/ DocumentLike(mime) /\ target = FmtPdf

IsFileTooLarge(r) == r.status = "rejected" /\ Includes(r.message, SubExceeds20MB)

(***************************************************************************)
(* C1  convertFile fails with the FileTooLarge outcome, whose message      *)
(* names the measured size and contains 'exceeds 20MB', exactly when the   *)
(* measured size of the input is strictly greater than 20 MiB; a file of   *)
(* exactly 20 MiB passes the size check; when the size check fails no      *)
(* pipeline is invoked and no output file is created.                      *)
(***************************************************************************)
C1_FileTooLargeIffOversize ==
  JustSettled =>
    LET st == Stat(files, call.inputPath)
    IN  /\ IsFileTooLarge(result) <=> (st.ok /\ st.size > 20 * 1024 * 1024)
        /\ IsFileTooLarge(result) =>
             /\ result.message =
                  MsgFileSizePrefix \o ToFixed2MB(st.size) \o MsgFileSizeSuffix
             /\ st.size = 25 * 1024 * 1024 => result.message = MsgFileSize25
             /\ st.size = 20 * 1024 * 1024 + 1 => result.message = MsgFileSize20
             /\ ~PipelineInvoked
             /\ NoSideEffects

C1_Witness ==
  /\ JustSettled
  /\ Stat(files, call.inputPath).size = 20 * 1024 * 1024 + 1
  /\ result = Rejected(MsgFileSize20)

(***************************************************************************)
(* C2  For a readable input of at most 20 MiB that passes the safety check *)
(* and a (source MIME, target token) pair outside the allow-list,          *)
(* convertFile fails with 'Unsupported format', invokes no pipeline or     *)
(* backend and writes nothing to scratch storage.                          *)
(***************************************************************************)
C2_UnsupportedPairRejected ==
  ( /\ JustSettled
    /\ InputAccepted
    /\ ~DeniedExtension /\ ~DeniedMime
    /\ ~AllowListed(call.inputMime, call.targetFormat) )
  => /\ result = Rejected(MsgUnsupportedFormat)
     /\ ~PipelineInvoked
     /\ NoSideEffects

C2_Witness ==
  /\ JustSettled
  /\ InputAccepted
  /\ call.inputMime = MimeImageJpeg
  /\ call.targetFormat = FmtMp3
  /\ result = Rejected(MsgUnsupportedFormat)

(***************************************************************************)
(* C3  A file whose extension is on the deny-list (compared                *)
(* case-insensitively) is rejected whatever MIME is declared, no pipeline  *)
(* is invoked, and the failure returned is of the UnsafeFileType kind,     *)
(* distinguishable from the generic 'Conversion failed'.                   *)
(***************************************************************************)
C3_UnsafeFileTypeReported ==
  (JustSettled /\ InputAccepted /\ DeniedExtension)
  => /\ result.status = "rejected"
     /\ ~PipelineInvoked
     /\ result.message # MsgConversionFailed

(***************************************************************************)
(* C4  When the media timer fires before the backend has reported          *)
(* completion, the process is killed, the partial output is removed and    *)
(* convertFile reports 'Conversion timed out', not a generic failure.      *)
(***************************************************************************)
C4_MediaTimeoutReported ==
  (pc = "settled" /\ mediaTimer = "fired" /\ media.err.message = MsgConversionTimedOut)
  => /\ media.proc \in {"killed", "ended", "errored", "closed"}
     /\ result = Rejected(MsgConversionTimedOut)

(***************************************************************************)
(* C5  Once convertFile has reported a failure and every removal it        *)
(* started has completed, no output artifact of the request exists in      *)
(* scratch storage, whatever is still running.                             *)
(***************************************************************************)
C5_NoOutputAfterFailure ==
  (result.status = "rejected" /\ pendingUnlinks = {})
  => ~Exists(files, OutputPath)

(***************************************************************************)
(* C6  For a readable, safe input the allow-list check accepts             *)
(* (mime, target) exactly when the pair is in the specified allow-list,    *)
(* text/plain to pdf included, which is dispatched to the document         *)
(* pipeline.                                                               *)
(***************************************************************************)
C6_AllowListAsSpecified ==
  ( /\ pc \in {"converting", "settled"}
    /\ caller = "awaiting"
    /\ InputAccepted
    /\ ~DeniedExtension /\ ~DeniedMime )
  => /\ PipelineInvoked <=> AllowListed(call.inputMime, call.targetFormat)
     /\ (call.inputMime = MimeTextPlain /\ call.targetFormat = FmtPdf)
          => doc.pc # "idle"

(***************************************************************************)
(* C7  convertFile on a path that does not exist, or whose size cannot be  *)
(* read, fails with 'File not found' and invokes no pipeline.              *)
(***************************************************************************)
C7_MissingFileNotFound ==
  (JustSettled /\ ~Stat(files, call.inputPath).ok)
  => /\ result = Rejected(MsgFileNotFound)
     /\ ~PipelineInvoked

(***************************************************************************)
(* C8  The PDF built for an image begins with '%PDF-1.4', and every offset *)
(* in its cross-reference table and the startxref value equal the byte     *)
(* position of the corresponding object record and of the xref keyword in  *)
(* the assembled file.                                                     *)
(***************************************************************************)
\* the offset written in entry k (1..6) of the cross-reference table
XrefEntry(pdf, k) ==
  LET xref == pdf.parts[10].text
      from == Len(PdfXrefHead) + (k - 1) * 20
  IN  ParseDec(SubSeq(xref, from + 1, from + 10))

\* the number written after the startxref keyword
StartXref(pdf) ==
  LET trailer == pdf.parts[11].text
  IN  ParseDec(SubSeq(trailer, Len(PdfTrailerA) + 1,
                      Len(trailer) - Len(PdfTrailerB)))

\* the byte position of the record 'k 0 obj' in the assembled file
ObjectPosition(pdf, k) ==
  IF k <= 5 THEN PartStart(pdf.parts, k + 1) ELSE PartStart(pdf.parts, 9)

C8_XrefOffsetsExact ==
  pdfDoc # NoPdf =>
    /\ StartsWith(pdfDoc.parts[1].text, PdfMagic)
    /\ \A k \in 1..6 : XrefEntry(pdfDoc, k) = ObjectPosition(pdfDoc, k)
    /\ StartXref(pdfDoc) = PartStart(pdfDoc.parts, 10)

C10_CleanupNeverRaises ==
  \A e \in cleanupLog :
    /\ ~e.raised
    /\ (e.existed /\ e.code # "EPERM") => (e.code = "" /\ e.gone)
    /\ ~e.existed => e.code = "ENOENT"

C10_Witness ==
  \E e1, e2 \in cleanupLog :
    /\ e1.path = e2.path
    /\ e1.existed /\ e1.gone
    /\ ~e2.existed /\ e2.code = "ENOENT" /\ ~e2.raised

(***************************************************************************)
(* C11  For every successful image conversion with input dimensions        *)
(* (w, h) the longer side of the output is at most 1080 and at most        *)
(* max(w, h): when max(w, h) is at most 1080 no resize is applied, and     *)
(* when it exceeds 1080 the longer side becomes 1080 and the aspect ratio  *)
(* is preserved (the shorter side is the exact quotient, rounded).         *)
(***************************************************************************)
C11_LongerSideCapped ==
  img.pc = "resolved" =>
    LET long     == IF img.width >= img.height THEN img.width ELSE img.height
        short    == IF img.width >= img.height THEN img.height ELSE img.width
        outLong  == IF img.width >= img.height THEN img.outWidth ELSE img.outHeight
        outShort == IF img.width >= img.height THEN img.outHeight ELSE img.outWidth
        diff     == outShort * long - short * 1080
    IN  /\ outLong <= 1080
        /\ outLong <= long
        /\ outShort <= outLong
        /\ long <= 1080 => (img.outWidth = img.width /\ img.outHeight = img.height)
        /\ long > 1080 =>
             /\ outLong = 1080
             /\ outShort >= 1
             /\ 2 * diff <= long /\ -2 * diff <= long

C11_Witness ==
  /\ img.pc = "resolved"
  /\ result = Resolved(OutputPath)
  /\ img.width = 3000 /\ img.height = 4000
  /\ img.outWidth = 810 /\ img.outHeight = 1080

(***************************************************************************)
(* C12  convertFile normalizes the requested format by lower-casing it and *)
(* stripping a leading dot, and changes nothing else: a token with a dot   *)
(* in any other position keeps that dot and is not turned into a supported *)
(* token.                                                                  *)
(***************************************************************************)
C12_OnlyLeadingDotStripped ==
  pc # "idle" =>
    LET lower == ToLowerCase(call.requestedFormat)
        stripped == IF lower # <<>> /\ lower[1] = "." THEN Tail(lower) ELSE lower
    IN  /\ call.targetFormat = stripped
        /\ result.status = "resolved" =>
             \A i \in 2..Len(call.requestedFormat) : call.requestedFormat[i] # "."

(***************************************************************************)
(* C13  Every failure of convertFile is an Error whose message is one of   *)
(* exactly five forms: 'File size <n>MB exceeds 20MB limit' with <n> a     *)
(* number with two decimals, 'Conversion timed out', 'Unsupported format', *)
(* 'File not found', 'Conversion failed'; the raw message of a backend or  *)
(* of an internal error is never propagated.                               *)
(***************************************************************************)
C13_FiveMessageForms ==
  result.status = "rejected" =>
    LET msg == result.message
        n   == Len(msg) - Len(MsgFileSizePrefix) - Len(MsgFileSizeSuffix)
        mid == SubSeq(msg, Len(MsgFileSizePrefix) + 1, Len(MsgFileSizePrefix) + n)
        digit(c) == \E k \in 1..10 : DigitChars[k] = c
    IN  \/ msg \in {MsgConversionTimedOut, MsgUnsupportedFormat, MsgFileNotFound,
                    MsgConversionFailed}
        \/ /\ n >= 4
           /\ SubSeq(msg, 1, Len(MsgFileSizePrefix)) = MsgFileSizePrefix
           /\ SubSeq(msg, Len(msg) - Len(MsgFileSizeSuffix) + 1, Len(msg)) =
                MsgFileSizeSuffix
           /\ mid[n - 2] = "."
           /\ \A k \in (1..n) \ {n - 2} : digit(mid[k])

C13_Witness ==
  /\ JustSettled
  /\ media.promise = "rejected"
  /\ media.err.message = MsgFfmpegExit
  /\ result = Rejected(MsgConversionFailed)

(***************************************************************************)
(* C14  On every convertFile call the three validations (size,             *)
(* extension/MIME safety, allow-list) complete before any pipeline starts: *)
(* if any of them fails, no pipeline has been invoked, no external process *)
(* has been spawned, no timer has been started and no file has been        *)
(* written.                                                                *)
(***************************************************************************)
C14_ValidationBeforePipeline ==
  ( /\ JustSettled
    /\ \/ ~InputAccepted
       \/ DeniedExtension
       \/ DeniedMime
       \/ ~IsValidConversion(call.inputMime, call.targetFormat) )
  => /\ result.status = "rejected"
     /\ ~PipelineInvoked
     /\ NoSideEffects

C14_Witness ==
  /\ JustSettled
  /\ InputAccepted
  /\ ExtName(call.inputPath) = ExtExeUpper
  /\ DeniedExtension
  /\ ~DeniedMime
  /\ IsValidConversion(call.inputMime, call.targetFormat)
  /\ result.status = "rejected"
  /\ ~PipelineInvoked

C16_IntermediatesRemoved ==
  ( /\ ImageBranch(call.targetFormat) = "pdf"
    /\ img.pc \in {"resolved", "rejected"} )
  => /\ ~Exists(files, JpegPath)
     /\ PngPath # call.inputPath => ~Exists(files, PngPath)

(***************************************************************************)
(* C17  On timeout the external backend process is forcibly terminated for *)
(* the document pipeline as well as for the media pipeline: no backend     *)
(* work of the request continues after the timeout has been reported.      *)
(***************************************************************************)
C17_BackendKilledOnTimeout ==
  /\ mediaTimer = "fired" => media.proc # "running"
  /\ (docTimer = "fired" /\ doc.err.code = "TIMEOUT") => doc.backend # "running"

(***************************************************************************)
(* C18  When a pipeline fails internally (image, media or document), the   *)
(* partial output file at its output path has already been removed at the  *)
(* moment the failure reaches the caller of the pipeline, and the removal  *)
(* itself never raises.                                                    *)
(***************************************************************************)
C18_OutputRemovedBeforeFailure ==
  ( \/ img.pc = "rejected"
    \/ media.promise = "rejected" /\ mediaTimer = "cleared"
    \/ doc.pc = "rejected" /\ doc.err.code # "TIMEOUT" )
  => /\ ~Exists(files, OutputPath)
     /\ \A e \in cleanupLog : ~e.raised

(***************************************************************************)
(* C19  When a pipeline finishes, successfully or with an error, before    *)
(* its timeout, the timeout timer of that request is cancelled: for media, *)
(* image and document conversions alike no timer of a finished request     *)
(* stays pending or fires later.                                           *)
(***************************************************************************)
C19_TimerCancelledOnCompletion ==
  /\ media.promise \in {"resolved", "rejected"} => mediaTimer # "armed"
  /\ img.pc \in {"resolved", "rejected"} => imgTimer # "armed"
  /\ doc.pc \in {"resolved", "rejected"} => docTimer # "armed"

(***************************************************************************)
(* C20  In the document pipeline the backend is invoked exactly once and   *)
(* exactly one of {backend result, 120 s timeout} decides the outcome: if  *)
(* the backend result arrives first, its bytes are written to the output   *)
(* path and that path is returned; if the timeout fires first, convertFile *)
(* reports 'Conversion timed out' and nothing is written to the output     *)
(* path then or later, a late backend result being discarded.              *)
(***************************************************************************)
C20_DocumentRaceDecidedOnce ==
  [][ /\ \* no retry: the backend is started from "none" only
         (doc.backend # "running" /\ doc'.backend = "running")
           => doc.backend = "none"
      /\ \* the timeout decided
         Includes(doc'.err.message, MsgTimedOutAfter) =>
           /\ doc'.pc = "rejected"
           /\ result' = Rejected(MsgConversionTimedOut)
           /\ Write(OutputPath') \notin touched'
           /\ ~Exists(files', OutputPath')
      /\ \* the backend result decided
         doc'.pc \in {"write", "resolved"} =>
           /\ doc'.backend = "finished"
           /\ Write(OutputPath') \in touched'
           /\ ~Includes(doc'.err.message, MsgTimedOutAfter)
      /\ doc'.pc = "resolved" =>
           /\ result' = Resolved(OutputPath')
           /\ caller' = "awaiting" =>
                (Exists(files', OutputPath') /\ files'[OutputPath'].kind = "document")
    ]_vars

C20_Witness ==
  /\ doc.pc = "rejected"
  /\ docTimer = "fired"
  /\ doc.backend = "finished"
  /\ result = Rejected(MsgConversionTimedOut)
  /\ Write(OutputPath) \notin touched
  /\ ~Exists(files, OutputPath)

(***************************************************************************)
(* Observations of the bot                                                 *)
(***************************************************************************)
\* the scratch paths a convert handler's request reads, writes or removes
RequestPaths(hd) ==
  LET target == NormalizeFormat(hd.target)
  IN  {hd.inputPath, OutputPathOf(hd.inputPath, target)} \cup
      IF StartsWith(hd.pending.originalMime, PfxImage) /\ target = FmtPdf
      THEN {PngPathOf(hd.inputPath), JpegPathOf(PngPathOf(hd.inputPath))}
      ELSE {}

(***************************************************************************)
(* C21  Any two conversion requests in progress at the same time, of the   *)
(* same user or of different users, use distinct input paths, distinct     *)
(* intermediate paths and distinct output paths in scratch storage.        *)
(***************************************************************************)
C21_RequestPathsDisjoint ==
  \A h1, h2 \in BotHandlers :
    ( /\ h1 # h2
      /\ bot.handlers[h1].stage = "converting"
      /\ bot.handlers[h2].stage = "converting" )
    => RequestPaths(bot.handlers[h1]) \cap RequestPaths(bot.handlers[h2]) = {}

(***************************************************************************)
(* C22  Every target token that the allow-list permits for a source        *)
(* category has a branch in the pipeline that category is dispatched to: a *)
(* request that passes validation is never rejected by the unknown-format  *)
(* default branch of the image or media pipeline, nor by the router's      *)
(* final 'Unsupported format' else branch.                                 *)
(***************************************************************************)
C22_AllowedTokenHasBranch ==
  /\ ~Includes(img.err.message, MsgUnsupportedFormatColon)
  /\ ~Includes(media.err.message, MsgUnsupportedFormatColon)
  /\ ( /\ pc \in {"converting", "settled"}
       /\ InputAccepted
       /\ ~DeniedExtension /\ ~DeniedMime
       /\ IsValidConversion(call.inputMime, call.targetFormat) )
     => /\ PipelineInvoked
        /\ result.message # MsgUnsupportedFormat

C22_Witness ==
  /\ JustSettled
  /\ StartsWith(call.inputMime, PfxImage)
  /\ call.targetFormat = FmtGif
  /\ img.pc = "resolved"
  /\ result = Resolved(OutputPath)

\* C23: the page size written for an image of w x h pixels is at most
\* 595 x 842 and at most w x h; it is (w, h) when the image fits, and
\* otherwise both sides are the image's sides times min(595/w, 842/h),
\* rounded down.
C23_PageIsExactlyScaledDown ==
  pdfDoc # NoPdf =>
    LET w == pdfDoc.imgWidth
        h == pdfDoc.imgHeight
        W == pdfDoc.page.w
        H == pdfDoc.page.h
    IN  /\ pdfDoc.parts[4].text =
             PdfObj3A \o ToDec(W) \o <<" ">> \o ToDec(H) \o PdfObj3B
        /\ W <= A4_WIDTH /\ H <= A4_HEIGHT /\ W <= w /\ H <= h
        /\ (w <= A4_WIDTH /\ h <= A4_HEIGHT) => (W = w /\ H = h)
        /\ (w > A4_WIDTH \/ h > A4_HEIGHT) =>
             IF A4_WIDTH * h <= A4_HEIGHT * w
             THEN W = A4_WIDTH /\ H = (h * A4_WIDTH) \div w
             ELSE W = (w * A4_HEIGHT) \div h /\ H = A4_HEIGHT

\* the part of C23 that does not depend on the rounding: the bounds and the
\* unscaled case
C23_PageWithinBounds ==
  pdfDoc # NoPdf =>
    /\ pdfDoc.page.w <= A4_WIDTH /\ pdfDoc.page.h <= A4_HEIGHT
    /\ pdfDoc.page.w <= pdfDoc.imgWidth /\ pdfDoc.page.h <= pdfDoc.imgHeight
    /\ (pdfDoc.imgWidth <= A4_WIDTH /\ pdfDoc.imgHeight <= A4_HEIGHT) =>
         (pdfDoc.page.w = pdfDoc.imgWidth /\ pdfDoc.page.h = pdfDoc.imgHeight)

\* C30: the page width and the page height written to the MediaBox and to
\* the content stream are both at least 1, for every image whose sides are
\* between 1 and 1080 pixels.
C30_PageSidesAtLeastOne ==
  pdfDoc # NoPdf =>
    /\ pdfDoc.parts[4].text =
         PdfObj3A \o ToDec(pdfDoc.page.w) \o <<" ">> \o ToDec(pdfDoc.page.h)
           \o PdfObj3B
    /\ pdfDoc.parts[9].text =
         PdfObj6A \o ToDec(pdfDoc.page.w) \o PdfObj6B \o ToDec(pdfDoc.page.h)
           \o PdfObj6C
    /\ pdfDoc.page.w >= 1
    /\ pdfDoc.page.h >= 1

\* C24: a convertFile call moves forward through validating, converting and
\* settled only; it ends in exactly one outcome (a path or one mapped error)
\* that never changes afterwards; at most one pipeline is invoked, only from
\* the validating stage, and a pipeline that has started is never started
\* again.
C24_OneAttemptOneOutcome ==
  [][ /\ (pc = "settled") = (result # Pending)
      /\ pc = "settled" => (pc' = "settled" /\ result' = result)
      /\ pc = "converting" => pc' \in {"converting", "settled"}
      /\ pc = "validating" => pc' \in {"validating", "converting", "settled"}
      /\ pc' = "settled" => result'.status \in {"resolved", "rejected"}
      /\ Cardinality({r \in {"image", "media", "document"} :
                        \/ r = "image" /\ img.pc # "idle"
                        \/ r = "media" /\ media.promise # "none"
                        \/ r = "document" /\ doc.pc # "idle"}) <= 1
      /\ (img.pc = "idle" /\ img'.pc # "idle") =>
           (pc = "validating" /\ media.promise = "none" /\ doc.pc = "idle")
      /\ (media.promise = "none" /\ media'.promise # "none") =>
           (pc = "validating" /\ img.pc = "idle" /\ doc.pc = "idle")
      /\ (doc.pc = "idle" /\ doc'.pc # "idle") =>
           (pc = "validating" /\ img.pc = "idle" /\ media.promise = "none")
      /\ img.pc # "idle" => img'.pc # "idle"
      /\ img.pc \in {"resolved", "rejected"} => img'.pc = img.pc
      /\ media.promise # "none" => media'.promise # "none"
      /\ media.promise \in {"resolved", "rejected"} =>
           media'.promise = media.promise
      /\ doc.pc # "idle" => doc'.pc # "idle"
      /\ doc.pc \in {"resolved", "rejected"} => doc'.pc = doc.pc
    ]_vars

\* the image pipeline won and the timer of the race fired afterwards
C24_Witness ==
  /\ pc = "settled"
  /\ result.status = "resolved"
  /\ img.pc = "resolved"
  /\ imgTimer = "fired"

\* C25: the size check, the safety check and the allow-list check run in
\* this order and the first one that fails decides: an unreadable file is
\* reported as a failure and never as an unsupported format, an oversize
\* file is reported as too large whatever its extension, MIME type and
\* target, a deny-listed file is never reported as an unsupported format,
\* and only a file that passed the first two checks is reported as
\* unsupported.
C25_FirstFailingCheckDecides ==
  (JustSettled /\ ~PipelineInvoked) =>
    LET st == Stat(files, call.inputPath)
    IN  /\ result.status = "rejected"
        /\ IF ~st.ok THEN result.message = MsgConversionFailed
           ELSE IF st.size > MAX_FILE_SIZE
           THEN result.message = FileTooLargeError(st.size).message
           ELSE IF DeniedExtension \/ DeniedMime
           THEN result.message = MsgConversionFailed
           ELSE result.message = MsgUnsupportedFormat

\* an oversize file with a deny-listed extension and a pair the allow-list
\* rejects was reported as too large
C25_Witness ==
  /\ JustSettled
  /\ Stat(files, call.inputPath).ok
  /\ Stat(files, call.inputPath).size > MAX_FILE_SIZE
  /\ DeniedExtension
  /\ ~IsValidConversion(call.inputMime, call.targetFormat)
  /\ result.message = FileTooLargeError(Stat(files, call.inputPath).size).message

\* C26: the caller's cleanup never removes the input file while a transform
\* that reads it is still running: while sharp is reading the input
\* (metadata, toFile, the PNG step of the PDF route) the handler's finally
\* block has not run.
C26_InputKeptWhileTransformReads ==
  img.pc \in {"metadata", "toFile", "pngToFile"} => caller # "done"

\* C27: a user's pending entry is removed only by the completion of the
\* conversion of that very file: when a handler finishes successfully, an
\* entry the same user stored for another file in the meantime stays.
C27_OnlyConvertedEntryRemoved ==
  [][ \A u \in BotUsers :
        (bot.pending[u] # NoPending /\ bot'.pending[u] = NoPending) =>
          \E h \in BotHandlers :
            /\ bot.handlers[h].stage = "converting"
            /\ bot'.handlers[h].stage = "sent"
            /\ bot.handlers[h].user = u
            /\ bot.handlers[h].pending = bot.pending[u]
    ]_vars

\* C28: every button offered for a MIME type is a pair the allow-list
\* accepts: a conversion requested with an offered target for that MIME type
\* never ends in 'Unsupported format'.
C28_OfferedButtonsAccepted ==
  (JustSettled /\ call.requestedFormat \in GetConversionKeyboard(call.inputMime))
    => /\ result.message # MsgUnsupportedFormat
       /\ InputAccepted /\ ~DeniedExtension /\ ~DeniedMime =>
            IsValidConversion(call.inputMime, call.targetFormat)

\* C29: for a media conversion the first of 'timeout fires', 'end' and
\* 'error' decides.  Once the timeout has fired the call has failed with the
\* timeout, the process no longer runs, and the output file is removed or its
\* removal is under way, also when 'end' is delivered afterwards.  Once 'end'
\* has resolved the call, the timer is cancelled, the process was not
\* killed, and the pipeline never removes the returned file.
C29_FirstMediaEventDecides ==
  /\ mediaTimer = "fired" =>
       /\ media.promise = "rejected"
       /\ media.err.message = MsgConversionTimedOut
       /\ pc = "settled"
       /\ result.status = "rejected"
       /\ media.proc \notin {"running"}
       /\ \/ ~Exists(files, OutputPath)
          \/ \E u \in pendingUnlinks : u.path = OutputPath
  /\ media.promise = "resolved" =>
       /\ mediaTimer = "cleared"
       /\ media.proc = "closed"
       /\ pc = "settled"
       /\ result = Resolved(OutputPath)
       /\ Remove(OutputPath) \notin touched
       /\ \A u \in pendingUnlinks : u.path # OutputPath
       /\ caller = "awaiting" => Exists(files, OutputPath)

\* the process had exited and its 'end' event was still to be delivered when
\* the timer fired: the call failed and the finished output file is gone
C29_Witness ==
  /\ mediaTimer = "fired"
  /\ media.proc = "ended"
  /\ media.promise = "rejected"
  /\ pendingUnlinks = {}
  /\ ~Exists(files, OutputPath)
  /\ \E e \in cleanupLog : e.path = OutputPath /\ e.existed /\ e.gone

====
